---- MODULE Spec2Model ----
(***************************************************************************)
(* A model of hyprland-mcp: an MCP server whose tools build one hyprctl    *)
(* command line each and exchange it with Hyprland over a unix socket.     *)
(* Text is modelled by TLA+ strings (Len, SubSeq and \o work on them), so  *)
(* formatting, quoting and escaping are computed character by character.   *)
(***************************************************************************)
EXTENDS Integers, Sequences, FiniteSets, TLC

VARIABLES
    env,          \* the process environment: variable name -> Option<String>
    mainpc,       \* position of main: "start", "serving" or "exited"
    sock,         \* HyprlandMcpServer.sock, the resolved socket path
    fatal,        \* what main's error return prints, "" when nothing
    pc,           \* per caller: position of the pending tool call
    req,          \* per caller: the decoded request (tool and parameters)
    command,      \* per caller: the command string handed to cmd
    fd,           \* per caller: the connection cmd holds, 0 when none
    out,          \* per caller: cmd's local read buffer
    result,       \* per caller: the Result<String, String> of the call
    ops,          \* per caller: the socket calls made so far, with outcome
    cancelled,    \* per caller: the host has abandoned the pending call
    conns,        \* the unix sockets: connection id -> both ends' state
    failedBefore  \* some earlier call has returned an error

vars == <<env, mainpc, sock, fatal, pc, req, command, fd, out, result, ops,
          cancelled, conns, failedBefore>>

hostvars == <<env, mainpc, sock, fatal>>

-----------------------------------------------------------------------------
(* Bounds and input sets *)

MaxLen == 2

Alphabet == {"a", " ", "\""}

RECURSIVE StrsOfLen(_)
StrsOfLen(n) ==
    IF n = 0 THEN {""}
    ELSE {s \o ch : s \in StrsOfLen(n - 1), ch \in Alphabet}

Strs == UNION {StrsOfLen(n) : n \in 0..MaxLen}

Calls == {"A", "B"}

ConnIds == {1, 2}

-----------------------------------------------------------------------------
(* Option and Result values *)

None == <<>>

Some(v) == <<v>>

unwrap_or(o, d) == IF o = None THEN d ELSE o[1]

Ok(v) == [ok |-> TRUE, v |-> v]

Err(e) == [ok |-> FALSE, v |-> e]

-----------------------------------------------------------------------------
(* Text: characters, Display of integers, str::replace, quote *)

Char(s, i) == SubSeq(s, i, i)

Tail1(s) == SubSeq(s, 2, Len(s))

Digit(d) == Char("0123456789", d + 1)

RECURSIVE fmt_unsigned(_)
fmt_unsigned(n) ==
    IF n < 10 THEN Digit(n) ELSE fmt_unsigned(n \div 10) \o Digit(n % 10)

fmt_int(n) == IF n < 0 THEN "-" \o fmt_unsigned(0 - n) ELSE fmt_unsigned(n)

RECURSIVE replace(_, _, _)
replace(s, from, to) ==
    IF s = "" THEN ""
    ELSE (IF Char(s, 1) = from THEN to ELSE Char(s, 1))
         \o replace(Tail1(s), from, to)

quote_unescaped(arg) == "\"" \o arg \o "\""

quote(arg) == "\"" \o replace(arg, "\"", "\\\"") \o "\""

-----------------------------------------------------------------------------
(* Input sets of the tools *)

Commands == Strs \cup {"dispatch exec kitty", "activewindow", "rollinglog -f"}

WorkspaceNs == {0, 1, 3, 12}

Flags == {None, Some(FALSE), Some(TRUE)}

Amounts == {None, Some(0), Some(2), Some(10)}

Icons == {-1, 1}

Timeouts == {0, 3000}

Colors == {"rgb(ff0000)", ""}

Sizes == {0, 24}

Messages == Strs \cup {"He said \"hi\"", "\\", "\\\""}

Layouts == {"next", ""}

Values == {"1", "", "a  b "}

EnvValues == [XDG_RUNTIME_DIR : {None, Some("/run/user/1000")},
              HYPRLAND_INSTANCE_SIGNATURE : {None, Some("sig")}]

Replies == {"ok", "", "~"}

FewCommands == {"a", "rollinglog -f"}

FewNs == {0, 3}

-----------------------------------------------------------------------------
(* Startup: std::env::var, HyprlandMcpServer::new, main *)

NotPresent == "environment variable not found"

var(name) == IF env[name] = None THEN Err(NotPresent) ELSE Ok(env[name][1])

new ==
    LET xdg == var("XDG_RUNTIME_DIR")
        instance == var("HYPRLAND_INSTANCE_SIGNATURE")
    IN  IF ~xdg.ok THEN xdg
        ELSE IF ~instance.ok THEN instance
        ELSE Ok(xdg.v \o "/hypr/" \o instance.v \o "/.socket.sock")

main ==
    /\ mainpc = "start"
    /\ LET server == new
       IN  IF server.ok
           THEN /\ sock' = server.v
                /\ mainpc' = "serving"
                /\ fatal' = fatal
           ELSE /\ fatal' = "Error: " \o server.v
                /\ mainpc' = "exited"
                /\ sock' = sock
    /\ UNCHANGED <<env, pc, req, command, fd, out, result, ops, cancelled,
                   conns, failedBefore>>

-----------------------------------------------------------------------------
(* The command each tool builds *)

workspace_command(n) == "dispatch workspace " \o fmt_unsigned(n)

decorations_command(window_regex) == "decorations " \o window_regex

dismissnotify_command(amount) ==
    IF amount = None THEN "dismissnotify"
    ELSE "dismissnotify " \o fmt_unsigned(amount[1])

dispatch_command(args) == "dispatch " \o args

getoption_command(option) == "getoption " \o option

keyword_command_padded(name, value) ==
    "keyword " \o name \o "  " \o value

keyword_command(name, value) == "keyword " \o name \o " " \o value

monitors_command_all(all) ==
    IF unwrap_or(all, TRUE) THEN "monitors all" ELSE "monitors"

monitors_command(all) ==
    IF unwrap_or(all, FALSE) THEN "monitors all" ELSE "monitors"

notify_command(icon, timeout_ms, color, message) ==
    "notify " \o fmt_int(icon) \o " " \o fmt_unsigned(timeout_ms) \o " "
        \o color \o " " \o quote(message)

output_command(args) == "output " \o args

plugin_command(args) == "plugin " \o args

reload_command(config_only) ==
    IF unwrap_or(config_only, FALSE) THEN "reload config-only" ELSE "reload"

rollinglog_command(follow) ==
    IF unwrap_or(follow, FALSE) THEN "rollinglog -f" ELSE "rollinglog"

setcursor_command(theme, size) ==
    "setcursor " \o theme \o " " \o fmt_unsigned(size)

seterror_command(color, message) ==
    "seterror " \o color \o " " \o quote(message)

setprop_command(args) == "setprop " \o args

getprop_command(args) == "getprop " \o args

switchxkblayout_command(keyboard, layoutcmd) ==
    "switchxkblayout " \o keyboard \o " " \o layoutcmd

hyprpaper_command(args) == "hyprpaper " \o args

hyprsunset_command(args) == "hyprsunset " \o args

-----------------------------------------------------------------------------
(* Connections and io::Error texts.  A connection record holds both ends
   of one unix socket: what this side wrote and whether it half-closed, and
   what the peer has decided to send, has sent and whether it closed.  A
   dropped UnixStream stays as a "closed" record, with what was written and
   sent on it, until the call that owned it has returned to the host. *)

FreeConn ==
    [state |-> "free", written |-> "", wclosed |-> FALSE, replied |-> FALSE,
     follow |-> FALSE, pending |-> "", inbuf |-> "", sent |-> "",
     pclosed |-> FALSE]

Closed(conn) == [conn EXCEPT !.state = "closed", !.inbuf = "", !.pending = ""]

ECONNREFUSED == "Connection refused (os error 111)"

ENOENT == "No such file or directory (os error 2)"

EPIPE == "Broken pipe (os error 32)"

ENOTCONN == "Transport endpoint is not connected (os error 107)"

ECONNRESET == "Connection reset by peer (os error 104)"

InvalidUtf8 == "stream did not contain valid UTF-8"

BadByte == "~"

IsUtf8(bytes) == \A i \in 1..Len(bytes) : Char(bytes, i) # BadByte

Logged(c, op, err) == [ops EXCEPT ![c] = Append(@, [op |-> op, err |-> err])]

-----------------------------------------------------------------------------
(* Entering and leaving cmd *)

call_cmd_shared(c, r, cmdtext) ==
    /\ mainpc = "serving"
    /\ pc[c] = "idle"
    /\ pc' = [pc EXCEPT ![c] = "connect"]
    /\ req' = [req EXCEPT ![c] = r]
    /\ command' = [d \in Calls |-> cmdtext]
    /\ UNCHANGED <<hostvars, fd, out, result, ops, cancelled, conns,
                   failedBefore>>

call_cmd(c, r, cmdtext) ==
    /\ mainpc = "serving"
    /\ pc[c] = "idle"
    /\ pc' = [pc EXCEPT ![c] = "connect"]
    /\ req' = [req EXCEPT ![c] = r]
    /\ command' = [command EXCEPT ![c] = cmdtext]
    /\ UNCHANGED <<hostvars, fd, out, result, ops, cancelled, conns,
                   failedBefore>>

reject(c, r, msg) ==
    /\ mainpc = "serving"
    /\ pc[c] = "idle"
    /\ pc' = [pc EXCEPT ![c] = "done"]
    /\ req' = [req EXCEPT ![c] = r]
    /\ result' = [result EXCEPT ![c] = Err(msg)]
    /\ UNCHANGED <<hostvars, command, fd, out, ops, cancelled, conns,
                   failedBefore>>

finish(c, res) ==
    /\ pc' = [pc EXCEPT ![c] = "done"]
    /\ result' = [result EXCEPT ![c] = res]
    /\ conns' = IF fd[c] = 0 THEN conns
                ELSE [conns EXCEPT ![fd[c]] = Closed(@)]

-----------------------------------------------------------------------------
(* The steps of cmd: connect, write_all, shutdown(Write), read_to_string.
   Each is a blocking call on a std UnixStream, so other callers and the peer
   may act between two of them.  Every step either succeeds or fails with an
   io::Error; `?` then returns from cmd, which drops the stream, and hyprctl
   turns the error into its text. *)

FreeIds == {k \in ConnIds : conns[k].state = "free"}

connect_retry(c) ==
    /\ pc[c] = "connect"
    /\ \/ /\ FreeIds # {}
          /\ LET k == CHOOSE k \in FreeIds : \A j \in FreeIds : k <= j
             IN  /\ conns' = [conns EXCEPT ![k] =
                                 [FreeConn EXCEPT !.state = "open"]]
                 /\ fd' = [fd EXCEPT ![c] = k]
          /\ pc' = [pc EXCEPT ![c] = "write"]
          /\ ops' = Logged(c, "connect", "")
          /\ UNCHANGED result
       \/ \E e \in {ECONNREFUSED, ENOENT} :
             /\ IF ops[c] = <<>>
                THEN UNCHANGED <<pc, result, conns>>
                ELSE finish(c, Err(e))
             /\ ops' = Logged(c, "connect", e)
             /\ UNCHANGED fd
    /\ UNCHANGED <<hostvars, req, command, out, cancelled, failedBefore>>

connect(c) ==
    /\ pc[c] = "connect"
    /\ \/ /\ FreeIds # {}
          /\ LET k == CHOOSE k \in FreeIds : \A j \in FreeIds : k <= j
             IN  /\ conns' = [conns EXCEPT ![k] =
                                 [FreeConn EXCEPT !.state = "open"]]
                 /\ fd' = [fd EXCEPT ![c] = k]
          /\ pc' = [pc EXCEPT ![c] = "write"]
          /\ ops' = Logged(c, "connect", "")
          /\ UNCHANGED result
       \/ \E e \in {ECONNREFUSED, ENOENT} :
             /\ finish(c, Err(e))
             /\ ops' = Logged(c, "connect", e)
             /\ UNCHANGED fd
    /\ UNCHANGED <<hostvars, req, command, out, cancelled, failedBefore>>

write_all(c) ==
    /\ pc[c] = "write"
    /\ \/ /\ conns' = [conns EXCEPT ![fd[c]].written = @ \o command[c]]
          /\ pc' = [pc EXCEPT ![c] = "shutdown"]
          /\ ops' = Logged(c, "write", "")
          /\ UNCHANGED result
       \/ /\ command[c] # ""
          /\ \E n \in {0, Len(command[c]) \div 2} :
                /\ pc' = [pc EXCEPT ![c] = "done"]
                /\ result' = [result EXCEPT ![c] = Err(EPIPE)]
                /\ conns' = [conns EXCEPT ![fd[c]] =
                      Closed([@ EXCEPT !.written = SubSeq(command[c], 1, n)])]
          /\ ops' = Logged(c, "write", EPIPE)
    /\ UNCHANGED <<hostvars, req, command, fd, out, cancelled, failedBefore>>

shutdown(c) ==
    /\ pc[c] = "shutdown"
    /\ \/ /\ conns' = [conns EXCEPT ![fd[c]].wclosed = TRUE]
          /\ pc' = [pc EXCEPT ![c] = "read"]
          /\ ops' = Logged(c, "shutdown", "")
          /\ UNCHANGED result
       \/ /\ finish(c, Err(ENOTCONN))
          /\ ops' = Logged(c, "shutdown", ENOTCONN)
    /\ UNCHANGED <<hostvars, req, command, fd, out, cancelled, failedBefore>>

read_once(c) ==
    /\ pc[c] = "read"
    /\ conns[fd[c]].inbuf # ""
    /\ out' = [out EXCEPT ![c] = @ \o conns[fd[c]].inbuf]
    /\ finish(c, Ok(out[c] \o conns[fd[c]].inbuf))
    /\ ops' = Logged(c, "read", "")
    /\ UNCHANGED <<hostvars, req, command, fd, cancelled, failedBefore>>

read(c) ==
    /\ pc[c] = "read"
    /\ conns[fd[c]].inbuf # ""
    /\ out' = [out EXCEPT ![c] = @ \o conns[fd[c]].inbuf]
    /\ conns' = [conns EXCEPT ![fd[c]].inbuf = ""]
    /\ ops' = Logged(c, "read", "")
    /\ UNCHANGED <<hostvars, pc, req, command, fd, result, cancelled,
                   failedBefore>>

read_eof(c) ==
    /\ pc[c] = "read"
    /\ conns[fd[c]].inbuf = ""
    /\ conns[fd[c]].pclosed
    /\ IF IsUtf8(out[c])
       THEN /\ finish(c, Ok(out[c]))
            /\ ops' = Logged(c, "read", "")
       ELSE /\ finish(c, Err(InvalidUtf8))
            /\ ops' = Logged(c, "read", InvalidUtf8)
    /\ UNCHANGED <<hostvars, req, command, fd, out, cancelled, failedBefore>>

read_fail(c) ==
    /\ pc[c] = "read"
    /\ finish(c, Err(ECONNRESET))
    /\ ops' = Logged(c, "read", ECONNRESET)
    /\ UNCHANGED <<hostvars, req, command, fd, out, cancelled, failedBefore>>

-----------------------------------------------------------------------------
(* The tools of lib.rs *)

RECURSIVE trim_end(_)
trim_end(s) ==
    IF s # "" /\ Char(s, Len(s)) = " " THEN trim_end(SubSeq(s, 1, Len(s) - 1))
    ELSE s

hyprctl_trimmed(c, D) ==
    \E cmdtext \in D :
        call_cmd(c, [tool |-> "hyprctl", command |-> cmdtext],
                 trim_end(cmdtext))

hyprctl(c, D) ==
    \E cmdtext \in D :
        call_cmd(c, [tool |-> "hyprctl", command |-> cmdtext], cmdtext)

workspace(c, D) ==
    \E n \in D :
        IF n = 0
        THEN reject(c, [tool |-> "workspace", n |-> n],
                    "workspace must be >= 1")
        ELSE call_cmd(c, [tool |-> "workspace", n |-> n],
                      workspace_command(n))

activewindow(c) == call_cmd(c, [tool |-> "activewindow"], "activewindow")

activeworkspace(c) == call_cmd(c, [tool |-> "activeworkspace"], "activeworkspace")

animations(c) == call_cmd(c, [tool |-> "animations"], "animations")

binds(c) == call_cmd(c, [tool |-> "binds"], "binds")

clients(c) == call_cmd(c, [tool |-> "clients"], "clients")

configerrors(c) == call_cmd(c, [tool |-> "configerrors"], "configerrors")

cursorpos(c) == call_cmd(c, [tool |-> "cursorpos"], "cursorpos")

globalshortcuts(c) == call_cmd(c, [tool |-> "globalshortcuts"], "globalshortcuts")

instances(c) == call_cmd(c, [tool |-> "instances"], "instances")

kill(c) == call_cmd(c, [tool |-> "kill"], "kill")

layers(c) == call_cmd(c, [tool |-> "layers"], "layers")

layouts(c) == call_cmd(c, [tool |-> "layouts"], "layouts")

splash(c) == call_cmd(c, [tool |-> "splash"], "splash")

systeminfo(c) == call_cmd(c, [tool |-> "systeminfo"], "systeminfo")

version(c) == call_cmd(c, [tool |-> "version"], "version")

workspacerules(c) == call_cmd(c, [tool |-> "workspacerules"], "workspacerules")

workspaces(c) == call_cmd(c, [tool |-> "workspaces"], "workspaces")

decorations(c) ==
    \E window_regex \in Strs :
        call_cmd(c, [tool |-> "decorations", window_regex |-> window_regex], decorations_command(window_regex))

dismissnotify(c) ==
    \E amount \in Amounts :
        call_cmd(c, [tool |-> "dismissnotify", amount |-> amount], dismissnotify_command(amount))

dispatch(c) ==
    \E args \in Strs :
        call_cmd(c, [tool |-> "dispatch", args |-> args], dispatch_command(args))

getoption(c) ==
    \E option \in Strs :
        call_cmd(c, [tool |-> "getoption", option |-> option], getoption_command(option))

keyword(c) ==
    \E name \in Strs, value \in Values :
        call_cmd(c, [tool |-> "keyword", name |-> name, value |-> value],
                 keyword_command(name, value))

monitors(c) ==
    \E all \in Flags :
        call_cmd(c, [tool |-> "monitors", all |-> all], monitors_command(all))

notify(c) ==
    \E icon \in Icons, timeout_ms \in Timeouts, color \in Colors,
       message \in Messages :
        call_cmd(c, [tool |-> "notify", icon |-> icon,
                     timeout_ms |-> timeout_ms, color |-> color,
                     message |-> message],
                 notify_command(icon, timeout_ms, color, message))

output(c) ==
    \E args \in Strs :
        call_cmd(c, [tool |-> "output", args |-> args], output_command(args))

plugin(c) ==
    \E args \in Strs :
        call_cmd(c, [tool |-> "plugin", args |-> args], plugin_command(args))

reload(c) ==
    \E config_only \in Flags :
        call_cmd(c, [tool |-> "reload", config_only |-> config_only], reload_command(config_only))

rollinglog(c) ==
    \E follow \in Flags :
        call_cmd(c, [tool |-> "rollinglog", follow |-> follow], rollinglog_command(follow))

setcursor(c) ==
    \E theme \in Strs, size \in Sizes :
        call_cmd(c, [tool |-> "setcursor", theme |-> theme, size |-> size],
                 setcursor_command(theme, size))

seterror(c) ==
    \E color \in Colors, message \in Messages :
        call_cmd(c, [tool |-> "seterror", color |-> color,
                     message |-> message],
                 seterror_command(color, message))

setprop(c) ==
    \E args \in Strs :
        call_cmd(c, [tool |-> "setprop", args |-> args], setprop_command(args))

getprop(c) ==
    \E args \in Strs :
        call_cmd(c, [tool |-> "getprop", args |-> args], getprop_command(args))

switchxkblayout(c) ==
    \E keyboard \in Strs, layoutcmd \in Layouts :
        call_cmd(c, [tool |-> "switchxkblayout", keyboard |-> keyboard,
                     command |-> layoutcmd],
                 switchxkblayout_command(keyboard, layoutcmd))

hyprpaper(c) ==
    \E args \in Strs :
        call_cmd(c, [tool |-> "hyprpaper", args |-> args], hyprpaper_command(args))

hyprsunset(c) ==
    \E args \in Strs :
        call_cmd(c, [tool |-> "hyprsunset", args |-> args], hyprsunset_command(args))

-----------------------------------------------------------------------------
(* The tools of server.rs, the server main.rs starts *)

server_dispatch(c, D) ==
    \E cmdtext \in D :
        call_cmd(c, [tool |-> "server::dispatch", command |-> cmdtext],
                 cmdtext)

server_workspace(c, D) ==
    \E n \in D :
        call_cmd(c, [tool |-> "server::workspace", n |-> n],
                 workspace_command(n))

-----------------------------------------------------------------------------
(* The peer (Hyprland) on one connection, and the host runtime.  The peer
   answers once it has seen request bytes or end-of-input, sends its reply in
   any number of chunks and then closes, except for "rollinglog -f", where it
   keeps the connection open.  cmd has no await point, so abandoning a call
   changes nothing in the handler. *)

peer_reply(k) ==
    /\ conns[k].state = "open"
    /\ conns[k].written # "" \/ conns[k].wclosed
    /\ ~conns[k].replied
    /\ \E r \in Replies :
          conns' = [conns EXCEPT ![k].replied = TRUE, ![k].pending = r,
                       ![k].follow = (conns[k].written = "rollinglog -f")]
    /\ UNCHANGED <<hostvars, pc, req, command, fd, out, result, ops,
                   cancelled, failedBefore>>

peer_send(k) ==
    /\ conns[k].state = "open"
    /\ conns[k].pending # ""
    /\ \E n \in 1..Len(conns[k].pending) :
          LET chunk == SubSeq(conns[k].pending, 1, n)
              rest == SubSeq(conns[k].pending, n + 1, Len(conns[k].pending))
          IN  conns' = [conns EXCEPT ![k].pending = rest,
                           ![k].inbuf = @ \o chunk, ![k].sent = @ \o chunk]
    /\ UNCHANGED <<hostvars, pc, req, command, fd, out, result, ops,
                   cancelled, failedBefore>>

peer_close(k) ==
    /\ conns[k].state = "open"
    /\ conns[k].replied
    /\ conns[k].pending = ""
    /\ ~conns[k].follow
    /\ ~conns[k].pclosed
    /\ conns' = [conns EXCEPT ![k].pclosed = TRUE]
    /\ UNCHANGED <<hostvars, pc, req, command, fd, out, result, ops,
                   cancelled, failedBefore>>

NoReq == [tool |-> ""]

NoResult == Ok("")

cancel(c) ==
    /\ pc[c] \in {"connect", "write", "shutdown", "read"}
    /\ ~cancelled[c]
    /\ cancelled' = [cancelled EXCEPT ![c] = TRUE]
    /\ UNCHANGED <<hostvars, pc, req, command, fd, out, result, ops, conns,
                   failedBefore>>

respond(c) ==
    /\ pc[c] = "done"
    /\ pc' = [pc EXCEPT ![c] = "idle"]
    /\ req' = [req EXCEPT ![c] = NoReq]
    /\ command' = [command EXCEPT ![c] = ""]
    /\ fd' = [fd EXCEPT ![c] = 0]
    /\ out' = [out EXCEPT ![c] = ""]
    /\ result' = [result EXCEPT ![c] = NoResult]
    /\ ops' = [ops EXCEPT ![c] = <<>>]
    /\ cancelled' = [cancelled EXCEPT ![c] = FALSE]
    /\ conns' = IF fd[c] = 0 THEN conns
                ELSE [conns EXCEPT ![fd[c]] = FreeConn]
    /\ failedBefore' = (failedBefore \/ ~result[c].ok)
    /\ UNCHANGED hostvars

-----------------------------------------------------------------------------
(* Specifications.  Spec: one caller, every tool, the wide input sets.
   ConcSpec: two callers interleaved at every socket step.  LiveSpec: one
   caller that the host may abandon, with weak fairness on the steps that
   only wait for the scheduler or the peer (never on a failure). *)

Init ==
    /\ env \in EnvValues
    /\ mainpc = "start"
    /\ sock = ""
    /\ fatal = ""
    /\ pc = [c \in Calls |-> "idle"]
    /\ req = [c \in Calls |-> NoReq]
    /\ command = [c \in Calls |-> ""]
    /\ fd = [c \in Calls |-> 0]
    /\ out = [c \in Calls |-> ""]
    /\ result = [c \in Calls |-> NoResult]
    /\ ops = [c \in Calls |-> <<>>]
    /\ cancelled = [c \in Calls |-> FALSE]
    /\ conns = [k \in ConnIds |-> FreeConn]
    /\ failedBefore = FALSE

Tool(c) ==
    \/ hyprctl(c, Commands)
    \/ workspace(c, WorkspaceNs)
    \/ activewindow(c)
    \/ activeworkspace(c)
    \/ animations(c)
    \/ binds(c)
    \/ clients(c)
    \/ configerrors(c)
    \/ cursorpos(c)
    \/ globalshortcuts(c)
    \/ instances(c)
    \/ kill(c)
    \/ layers(c)
    \/ layouts(c)
    \/ splash(c)
    \/ systeminfo(c)
    \/ version(c)
    \/ workspacerules(c)
    \/ workspaces(c)
    \/ decorations(c)
    \/ dismissnotify(c)
    \/ dispatch(c)
    \/ getoption(c)
    \/ keyword(c)
    \/ monitors(c)
    \/ notify(c)
    \/ output(c)
    \/ plugin(c)
    \/ reload(c)
    \/ rollinglog(c)
    \/ setcursor(c)
    \/ seterror(c)
    \/ setprop(c)
    \/ getprop(c)
    \/ switchxkblayout(c)
    \/ hyprpaper(c)
    \/ hyprsunset(c)
    \/ server_dispatch(c, FewCommands)
    \/ server_workspace(c, WorkspaceNs)

FewTool(c) ==
    \/ hyprctl(c, FewCommands)
    \/ workspace(c, FewNs)
    \/ rollinglog(c)

Cmd(c) ==
    \/ connect(c)
    \/ write_all(c)
    \/ shutdown(c)
    \/ read(c)
    \/ read_eof(c)
    \/ read_fail(c)

Peer(k) ==
    \/ peer_reply(k)
    \/ peer_send(k)
    \/ peer_close(k)

Next ==
    \/ main
    \/ Tool("A")
    \/ Cmd("A")
    \/ respond("A")
    \/ \E k \in ConnIds : Peer(k)

Spec == Init /\ [][Next]_vars

ConcNext ==
    \/ main
    \/ \E c \in Calls : FewTool(c) \/ Cmd(c) \/ respond(c)
    \/ \E k \in ConnIds : Peer(k)

ConcSpec == Init /\ [][ConcNext]_vars

LiveNext ==
    \/ main
    \/ FewTool("A")
    \/ Cmd("A")
    \/ cancel("A")
    \/ respond("A")
    \/ \E k \in ConnIds : Peer(k)

Fairness ==
    /\ WF_vars(connect("A"))
    /\ WF_vars(write_all("A"))
    /\ WF_vars(shutdown("A"))
    /\ WF_vars(read("A"))
    /\ WF_vars(read_eof("A"))
    /\ WF_vars(respond("A"))
    /\ \A k \in ConnIds : WF_vars(Peer(k))

LiveSpec == Init /\ [][LiveNext]_vars /\ Fairness

-----------------------------------------------------------------------------
(* Vocabulary of the properties *)

IsPrefix(p, s) == Len(p) <= Len(s) /\ SubSeq(s, 1, Len(p)) = p

Contains(s, sub) ==
    \E i \in 1..(Len(s) - Len(sub) + 1) : SubSeq(s, i, i + Len(sub) - 1) = sub

InCmd(c) == pc[c] \in {"connect", "write", "shutdown", "read"}

Conn(c) == conns[fd[c]]

WriteDone(c) == Len(ops[c]) >= 2 /\ ops[c][2].err = ""

SocketPath == "/run/user/1000/hypr/sig/.socket.sock"

DispatchWorkspace(n) ==
    CASE n = 1 -> "dispatch workspace 1"
      [] n = 3 -> "dispatch workspace 3"
      [] n = 12 -> "dispatch workspace 12"
      [] OTHER -> "dispatch workspace ?"

-----------------------------------------------------------------------------
(* C1: a workspace call with n >= 1 hands exactly "dispatch workspace n" to
   the transport; a call with n = 0 returns a validation error and performs
   no socket operation at all. *)
C1_WorkspaceValidated ==
    \A c \in Calls :
        req[c].tool \in {"workspace", "server::workspace"} =>
            IF req[c].n >= 1
            THEN /\ command[c] = DispatchWorkspace(req[c].n)
                 /\ WriteDone(c) => Conn(c).written = command[c]
            ELSE /\ pc[c] = "done"
                 /\ ~result[c].ok
                 /\ ops[c] = <<>>
                 /\ fd[c] = 0

(* C2: a finished call that failed in the transport returns the text of the
   one socket step that failed, no step follows a failed step and none but
   the read is made twice, a call whose steps all succeeded returns the
   peer's text whatever failed before it, and the socket path is unchanged. *)
C2_TransportFailureIsolated ==
    /\ mainpc = "serving" => sock = SocketPath
    /\ \A c \in Calls :
          pc[c] = "done" =>
             LET log == ops[c]
                 n == Len(log)
             IN  /\ \A i \in 1..(n - 1) : log[i].err = ""
                 /\ \A i, j \in 1..n :
                       (i # j /\ log[i].op = log[j].op) => log[i].op = "read"
                 /\ IF n = 0
                    THEN req[c].tool = "workspace" /\ req[c].n = 0
                         /\ ~result[c].ok
                    ELSE IF log[n].err # ""
                    THEN result[c] = Err(log[n].err)
                    ELSE result[c] = Ok(Conn(c).sent)

C2_Witness ==
    /\ failedBefore
    /\ pc["A"] = "done"
    /\ result["A"] = Ok("ok")

OwnCommand(r) ==
    CASE r.tool = "hyprctl" -> r.command
      [] r.tool = "workspace" -> DispatchWorkspace(r.n)
      [] r.tool = "rollinglog" ->
            IF r.follow = Some(TRUE) THEN "rollinglog -f" ELSE "rollinglog"
      [] OTHER -> "?"

(* C3: with two callers interleaved, the callers never hold the same
   connection, each caller's command and the bytes on its connection are the
   command of its own request, what it has read is what the peer sent on its
   own connection, and the socket path is fixed. *)
C3_CallsIsolated ==
    /\ mainpc = "serving" => sock = SocketPath
    /\ \A c, d \in Calls : (c # d /\ fd[c] # 0) => fd[c] # fd[d]
    /\ \A c \in Calls :
          (InCmd(c) \/ (pc[c] = "done" /\ ops[c] # <<>>)) =>
             /\ command[c] = OwnCommand(req[c])
             /\ fd[c] # 0 =>
                   /\ IsPrefix(Conn(c).written, OwnCommand(req[c]))
                   /\ WriteDone(c) => Conn(c).written = OwnCommand(req[c])
                   /\ pc[c] = "read" => out[c] \o Conn(c).inbuf = Conn(c).sent
                   /\ (pc[c] = "done" /\ result[c].ok) =>
                         result[c].v = Conn(c).sent

C3_Witness ==
    /\ pc["A"] = "read" /\ pc["B"] = "read"
    /\ Conn("A").written = "a"
    /\ Conn("B").written = "dispatch workspace 3"
    /\ out["A"] = "ok"
    /\ out["B"] = "o"

Missing == {name \in DOMAIN env : env[name] = None}

(* C4: when a required environment value is missing the process never
   serves and no tool call is accepted, and the fatal message it prints
   names a value that is missing. *)
C4_FatalNamesMissing ==
    Missing # {} =>
        /\ mainpc # "serving"
        /\ \A c \in Calls : pc[c] = "idle"
        /\ mainpc = "exited" => \E name \in Missing : Contains(fatal, name)

QuotesUpTo(m, i) == Cardinality({j \in 1..i : Char(m, j) = "\""})

IsQuoted(q, m) ==
    /\ Len(q) = Len(m) + QuotesUpTo(m, Len(m)) + 2
    /\ Char(q, 1) = "\""
    /\ Char(q, Len(q)) = "\""
    /\ \A i \in 1..Len(m) :
          LET at == 1 + i + QuotesUpTo(m, i)
          IN  /\ Char(q, at) = Char(m, i)
              /\ Char(m, i) = "\"" => Char(q, at - 1) = "\\"

Decimal(n) ==
    CASE n = -1 -> "-1"
      [] n = 0 -> "0"
      [] n = 1 -> "1"
      [] n = 2 -> "2"
      [] n = 10 -> "10"
      [] n = 24 -> "24"
      [] n = 3000 -> "3000"
      [] OTHER -> "?"

NotifyHead(r) ==
    "notify " \o Decimal(r.icon) \o " " \o Decimal(r.timeout_ms) \o " "
        \o r.color \o " "

(* C5: the command of a notify call is "notify {icon} {timeout_ms} {color} "
   followed by the message between double quotes, every double quote of the
   message preceded by one backslash and every other character unchanged; it
   is what is written to the socket; the call with message He said "hi" sends
   notify 1 3000 rgb(ff0000) "He said \"hi\"". *)
C5_NotifyQuoted ==
    \A c \in Calls :
        req[c].tool = "notify" =>
            LET head == NotifyHead(req[c])
            IN  /\ IsPrefix(head, command[c])
                /\ IsQuoted(SubSeq(command[c], Len(head) + 1, Len(command[c])),
                            req[c].message)
                /\ WriteDone(c) => Conn(c).written = command[c]
                /\ (/\ req[c].icon = 1
                    /\ req[c].timeout_ms = 3000
                    /\ req[c].color = "rgb(ff0000)"
                    /\ req[c].message = "He said \"hi\"") =>
                      command[c] = "notify 1 3000 rgb(ff0000) \"He said \\\"hi\\\"\""

C5_Witness ==
    /\ req["A"].tool = "notify"
    /\ req["A"].message = "He said \"hi\""
    /\ req["A"].icon = 1
    /\ req["A"].timeout_ms = 3000
    /\ req["A"].color = "rgb(ff0000)"
    /\ pc["A"] = "read"
    /\ Conn("A").written = "notify 1 3000 rgb(ff0000) \"He said \\\"hi\\\"\""

(* C6: the hyprctl tool hands its command string to the transport as it
   is, the bytes written to the socket are exactly that string, and a
   successful call returns exactly the text the peer sent. *)
C6_HyprctlVerbatim ==
    \A c \in Calls :
        req[c].tool = "hyprctl" =>
            /\ command[c] = req[c].command
            /\ fd[c] # 0 => IsPrefix(Conn(c).written, req[c].command)
            /\ WriteDone(c) => Conn(c).written = req[c].command
            /\ (pc[c] = "done" /\ result[c].ok) => result[c].v = Conn(c).sent

C6_Witness ==
    /\ req["A"].tool = "hyprctl"
    /\ req["A"].command = "a "
    /\ pc["A"] = "done"
    /\ fd["A"] # 0
    /\ Conn("A").written = "a "
    /\ result["A"] = Ok("ok")

(* C7: monitors, reload, rollinglog and dismissnotify build the bare verb
   when the flag or amount is unset (or the flag is false) and the verb with
   exactly "all", "config-only", "-f" or the amount when it is set. *)
C7_OptionalFlags ==
    \A c \in Calls :
        /\ req[c].tool = "monitors" =>
              command[c] = IF req[c].all = Some(TRUE) THEN "monitors all"
                           ELSE "monitors"
        /\ req[c].tool = "reload" =>
              command[c] = IF req[c].config_only = Some(TRUE)
                           THEN "reload config-only" ELSE "reload"
        /\ req[c].tool = "rollinglog" =>
              command[c] = IF req[c].follow = Some(TRUE) THEN "rollinglog -f"
                           ELSE "rollinglog"
        /\ req[c].tool = "dismissnotify" =>
              command[c] = IF req[c].amount = None THEN "dismissnotify"
                           ELSE "dismissnotify " \o Decimal(req[c].amount[1])

C7_Witness ==
    /\ req["A"].tool = "dismissnotify"
    /\ req["A"].amount = Some(10)
    /\ pc["A"] = "read"
    /\ Conn("A").written = "dismissnotify 10"

StepName(i) ==
    IF i = 1 THEN "connect"
    ELSE IF i = 2 THEN "write"
    ELSE IF i = 3 THEN "shutdown"
    ELSE "read"

(* C8: the socket calls of every tool call are, in this order, one connect
   that yields a fresh connection no other caller holds, one write of the
   whole command, one half-close, then reads; nothing follows a failed step;
   a successful result is returned only after the peer closed and is all the
   peer sent. *)
C8_StepsInOrder ==
    /\ \A c, d \in Calls : (c # d /\ fd[c] # 0) => fd[c] # fd[d]
    /\ \A c \in Calls :
          LET log == ops[c]
              n == Len(log)
          IN  /\ \A i \in 1..n : log[i].op = StepName(i)
              /\ \A i \in 1..(n - 1) : log[i].err = ""
              /\ (fd[c] # 0) <=> (n >= 1 /\ log[1].err = "")
              /\ pc[c] = "write" =>
                    Conn(c) = [FreeConn EXCEPT !.state = "open"]
              /\ (n >= 3 /\ log[3].err = "") =>
                    Conn(c).wclosed /\ Conn(c).written = command[c]
              /\ n >= 4 => Conn(c).wclosed
              /\ (pc[c] = "done" /\ result[c].ok) =>
                    /\ n >= 4
                    /\ Conn(c).pclosed
                    /\ result[c].v = Conn(c).sent

C8_Witness ==
    /\ pc["B"] = "done"
    /\ result["B"] = Ok("ok")
    /\ Len(ops["B"]) = 6
    /\ fd["A"] # 0

(* C9: every connection a tool call opens is eventually closed, whatever
   the peer does and whether or not the host has abandoned the call. *)
C9_EveryConnectionCloses ==
    \A k \in ConnIds : (conns[k].state = "open") ~> (conns[k].state # "open")

IsDedicated(r) == r.tool \notin {"", "hyprctl", "server::dispatch"}

NoTrailingSpace(s) == s = "" \/ Char(s, Len(s)) # " "

SingleSpaced(s) ==
    \A i \in 1..(Len(s) - 1) : ~(Char(s, i) = " " /\ Char(s, i + 1) = " ")

QuotedLen(m) == Len(m) + QuotesUpTo(m, Len(m)) + 2

Tokens(c) ==
    IF req[c].tool \in {"notify", "seterror"}
    THEN SubSeq(command[c], 1, Len(command[c]) - QuotedLen(req[c].message))
         \o "Q"
    ELSE command[c]

Verb(r) ==
    IF r.tool \in {"workspace", "server::workspace"} THEN "dispatch"
    ELSE r.tool

RawParams(r) ==
    CASE r.tool = "decorations" -> {r.window_regex}
      [] r.tool \in {"dispatch", "output", "plugin", "setprop", "getprop",
                     "hyprpaper", "hyprsunset"} -> {r.args}
      [] r.tool = "getoption" -> {r.option}
      [] r.tool = "keyword" -> {r.name, r.value}
      [] r.tool \in {"notify", "seterror"} -> {r.color}
      [] r.tool = "setcursor" -> {r.theme}
      [] r.tool = "switchxkblayout" -> {r.keyboard, r.command}
      [] OTHER -> {}

CleanArg(s) ==
    s # "" /\ Char(s, 1) # " " /\ NoTrailingSpace(s) /\ SingleSpaced(s)

WellFormed(c) ==
    /\ IsPrefix(Verb(req[c]), command[c])
    /\ Len(command[c]) > Len(Verb(req[c])) =>
          Char(command[c], Len(Verb(req[c])) + 1) = " "
    /\ SingleSpaced(Tokens(c))
    /\ NoTrailingSpace(Tokens(c))

(* C10 as stated: for every dedicated tool and every parameter value the
   command is the verb and its arguments, one space between consecutive
   tokens (a quoted message counting as one token), no trailing whitespace. *)
C10_SingleSpaced ==
    \A c \in Calls : (IsDedicated(req[c]) /\ InCmd(c)) => WellFormed(c)

(* C10 as amended: the same, for the calls whose unquoted string parameters
   are each non-empty with no leading, trailing or doubled space. *)
C10_SingleSpacedWhenClean ==
    \A c \in Calls :
        (/\ IsDedicated(req[c])
         /\ InCmd(c)
         /\ \A s \in RawParams(req[c]) : CleanArg(s)) => WellFormed(c)

C10_Witness ==
    /\ req["A"] = [tool |-> "keyword", name |-> "a\"", value |-> "1"]
    /\ pc["A"] = "write"
    /\ command["A"] = "keyword a\" 1"

====
